---- MODULE Spec2Model ----
(***************************************************************************)
(* ThreadHandle (src/src/lib.rs): a handle on one worker thread.           *)
(*   interrupted : Weak<AtomicBool>               the weak flag reference  *)
(*   join_handle : RwLock<Option<JoinHandle<T>>>  the single-use join slot *)
(* The worker closure owns the only long-lived Arc<AtomicBool>.  status()  *)
(* and interrupt() upgrade the Weak, which makes a temporary Arc; join()   *)
(* checks the slot under the read lock and takes it under the write lock,  *)
(* which it keeps for the whole native join.  Every lock acquisition, every*)
(* reference-count change and every atomic access is one step of a caller. *)
(***************************************************************************)
EXTENDS Integers, FiniteSets, TLC

\* ---------------------------------------------------------------- bounds
NumCallers == 2          \* threads sharing &ThreadHandle
MaxValue == 2            \* values a unit of work may return: 1..MaxValue
MaxIter == 1             \* iterations of the polling loop that are counted
                         \* (the loop goes on, i stays at MaxIter)

Callers == 1..NumCallers
Values == 1..MaxValue

\* Units of work as the repository's tests supply them: return a value
\* (test_status, test_join_ok), panic (test_join_error), poll the flag
\* (test_interrupt).  Each keeps the Arc it was given until it finishes.
RepoKinds == {"ret", "panic", "poll"}
\* F: FnOnce(Arc<AtomicBool>) -> T owns the Arc, so it may also drop it
\* before it returns ("drop"), and it need not look at the flag nor ever
\* return ("spin").
AnyKinds == RepoKinds \cup {"drop", "spin"}

VARIABLES
    spawned,      \* "none" | "ok" | "ioerror": what spawn() returned
    work,         \* the runnable: [kind, val]
    flag,         \* the AtomicBool's value
    strong,       \* the Arc's strong count (0: the cell is gone)
    workerHolds,  \* the closure still owns the Arc it was given
    wpc,          \* worker thread: "none" | "body" | "sleep" | "finished" | "exited"
    count,        \* the polling loop's i
    outcome,      \* the thread's result packet: [tag, val]
    join_handle,  \* the Option in the RwLock: "Some" | "None"
    readers,      \* callers holding the RwLock's read guard
    writer,       \* caller holding the RwLock's write guard, 0 if none
    poisoned,     \* the RwLock is poisoned
    pc,           \* per caller: position inside the operation it is in
    loc,          \* per caller: locals of that operation
    ret,          \* per caller: the value the operation returned
    obs,          \* per caller: what was already true when its call began
    someCount,    \* join() calls that returned Some(_) (capped at 2)
    okFalse,      \* interrupt() calls that returned Ok(false) (capped at 2)
    deadSeen      \* some status() returned Terminated or interrupt() Err

vars == <<spawned, work, flag, strong, workerHolds, wpc, count, outcome,
          join_handle, readers, writer, poisoned, pc, loc, ret, obs,
          someCount, okFalse, deadSeen>>

workerVars == <<work, flag, strong, workerHolds, wpc, count, outcome>>
lockVars == <<join_handle, readers, writer, poisoned>>
ghostVars == <<someCount, okFalse>>
histVars == <<someCount, okFalse, deadSeen>>

\* ---------------------------------------------------------------- values
NoOutcome == [tag |-> "none", val |-> 0]
OkOf(v) == [tag |-> "Ok", val |-> v]
ErrPayload == [tag |-> "Err", val |-> 0]

NoRet == [op |-> "none", tag |-> "none", prev |-> FALSE, val |-> 0]
StatusRet(t) == [op |-> "status", tag |-> t, prev |-> FALSE, val |-> 0]
InterruptOk(p) == [op |-> "interrupt", tag |-> "Ok", prev |-> p, val |-> 0]
InterruptErr == [op |-> "interrupt", tag |-> "Err", prev |-> FALSE, val |-> 0]
JoinNone == [op |-> "join", tag |-> "None", prev |-> FALSE, val |-> 0]
JoinSome(r) == [op |-> "join", tag |-> IF r.tag = "Ok" THEN "SomeOk" ELSE "SomeErr",
                prev |-> FALSE, val |-> r.val]
Unwound == [op |-> "join", tag |-> "unwind", prev |-> FALSE, val |-> 0]

NoLoc == [holds |-> FALSE, some |-> FALSE, prev |-> FALSE, res |-> NoOutcome]
NoObs == [done |-> FALSE, some |-> FALSE, taken |-> FALSE, dead |-> FALSE]

\* The unit of work has finished: it returned or it panicked.
BodyDone == wpc \in {"finished", "exited"}
\* The native thread has terminated: JoinHandle::join can return.
ThreadExited == wpc = "exited"

Init ==
    /\ spawned = "none"
    /\ work = [kind |-> "panic", val |-> 0]
    /\ flag = FALSE
    /\ strong = 0
    /\ workerHolds = FALSE
    /\ wpc = "none"
    /\ count = 0
    /\ outcome = NoOutcome
    /\ join_handle = "None"
    /\ readers = {}
    /\ writer = 0
    /\ poisoned = FALSE
    /\ pc = [c \in Callers |-> "idle"]
    /\ loc = [c \in Callers |-> NoLoc]
    /\ ret = [c \in Callers |-> NoRet]
    /\ obs = [c \in Callers |-> NoObs]
    /\ someCount = 0
    /\ okFalse = 0
    /\ deadSeen = FALSE

\* ----------------------------------------------------------------- spawn
\* The value a unit of work of kind k is built to return: any value for one
\* that just returns; a panicking or spinning one returns nothing, a polling
\* one returns its loop counter, and the early-dropping one returns 0.
WorkValues(k) == IF k = "ret" THEN Values ELSE {0}

\* spawn() succeeds: a fresh flag (false), one Arc moved into the closure,
\* the Weak and Some(join_handle) stored in the handle; the thread runs.
SpawnOk(kinds) ==
    /\ spawned = "none"
    /\ \E k \in kinds : \E v \in WorkValues(k) :
          work' = [kind |-> k, val |-> v]
    /\ spawned' = "ok"
    /\ flag' = FALSE
    /\ strong' = 1
    /\ workerHolds' = TRUE
    /\ wpc' = "body"
    /\ join_handle' = "Some"
    /\ UNCHANGED <<count, outcome, readers, writer, poisoned, pc, loc, ret,
                   obs, someCount, okFalse, deadSeen>>

\* thread::Builder::spawn fails: the `?` returns the io::Error, and the
\* closure with its Arc is dropped without ever running.
SpawnFail ==
    /\ spawned = "none"
    /\ spawned' = "ioerror"
    /\ UNCHANGED <<workerVars, lockVars, pc, loc, ret, obs, histVars>>

\* ---------------------------------------------------------------- worker
\* The closure's Arc goes away: one strong reference fewer.
DropWorkerArc == IF workerHolds THEN strong - 1 ELSE strong

\* Mutation: the packet holds a default value, not the closure's result.
BodyResultDefault(k, v, i) == IF k = "panic" THEN ErrPayload ELSE OkOf(0)

\* What the thread's packet holds for a unit of work of kind k.
BodyResult(k, v, i) ==
    CASE k = "panic" -> ErrPayload
      [] k = "poll" -> OkOf(i)
      [] OTHER -> OkOf(v)

\* The unit of work ends (return or unwinding): its Arc is dropped with it
\* and its result becomes the thread's result.
Finish ==
    /\ outcome' = BodyResult(work.kind, work.val, count)
    /\ strong' = DropWorkerArc
    /\ workerHolds' = FALSE
    /\ wpc' = "finished"

WorkerReturn ==
    /\ wpc = "body"
    /\ work.kind \in {"ret", "drop"}
    /\ Finish
    /\ UNCHANGED <<spawned, work, flag, count, lockVars, pc, loc, ret, obs,
                   histVars>>

WorkerPanic ==
    /\ wpc = "body"
    /\ work.kind = "panic"
    /\ Finish
    /\ UNCHANGED <<spawned, work, flag, count, lockVars, pc, loc, ret, obs,
                   histVars>>

\* Mutation: the loop's test is inverted, the loop is left while the flag
\* is still false.
WorkerPollInverted ==
    /\ wpc = "body"
    /\ work.kind = "poll"
    /\ IF ~flag
         THEN Finish
         ELSE /\ wpc' = "sleep"
              /\ UNCHANGED <<outcome, strong, workerHolds>>
    /\ UNCHANGED <<spawned, work, flag, count, lockVars, pc, loc, ret, obs,
                   histVars>>

\* while !interrupted.load(Relaxed) { sleep; i = i + 1 } i
WorkerPoll ==
    /\ wpc = "body"
    /\ work.kind = "poll"
    /\ IF flag
         THEN Finish
         ELSE /\ wpc' = "sleep"
              /\ UNCHANGED <<outcome, strong, workerHolds>>
    /\ UNCHANGED <<spawned, work, flag, count, lockVars, pc, loc, ret, obs,
                   histVars>>

\* sleep(200ms); i = i + 1, and back to the loop's test.
WorkerSleep ==
    /\ wpc = "sleep"
    /\ count' = IF count < MaxIter THEN count + 1 ELSE count
    /\ wpc' = "body"
    /\ UNCHANGED <<spawned, work, flag, strong, workerHolds, outcome,
                   lockVars, pc, loc, ret, obs, histVars>>

\* A unit of work that gives up its Arc while it keeps running.
WorkerDropFlag ==
    /\ wpc = "body"
    /\ work.kind = "drop"
    /\ workerHolds
    /\ strong' = DropWorkerArc
    /\ workerHolds' = FALSE
    /\ UNCHANGED <<spawned, work, flag, wpc, count, outcome, lockVars, pc,
                   loc, ret, obs, histVars>>

\* The native thread terminates after the closure has returned.
ThreadExit ==
    /\ wpc = "finished"
    /\ wpc' = "exited"
    /\ UNCHANGED <<spawned, work, flag, strong, workerHolds, count, outcome,
                   lockVars, pc, loc, ret, obs, histVars>>

\* --------------------------------------------------------------- callers
\* A caller enters an operation; obs records what had happened by then:
\* the unit of work finished, a join() returned Some, the slot already
\* empty, and, for a status() or interrupt(), the handle already reported
\* dead.
Begin(c, first) ==
    /\ spawned = "ok"
    /\ pc[c] = "idle"
    /\ pc' = [pc EXCEPT ![c] = first]
    /\ obs' = [obs EXCEPT ![c] =
                  [done |-> BodyDone,
                   some |-> someCount > 0,
                   taken |-> join_handle = "None",
                   dead |-> first # "join_read" /\ deadSeen]]
    /\ UNCHANGED <<spawned, workerVars, lockVars, loc, ret, histVars>>

\* The operation returns r to its caller.
Done(c, r) ==
    /\ pc' = [pc EXCEPT ![c] = "done"]
    /\ ret' = [ret EXCEPT ![c] = r]
    /\ deadSeen' = (deadSeen \/ r \in {StatusRet("Terminated"), InterruptErr})

\* The caller goes on to whatever it does next.
Return(c) ==
    /\ pc[c] = "done"
    /\ pc' = [pc EXCEPT ![c] = "idle"]
    /\ ret' = [ret EXCEPT ![c] = NoRet]
    /\ loc' = [loc EXCEPT ![c] = NoLoc]
    /\ obs' = [obs EXCEPT ![c] = NoObs]
    /\ UNCHANGED <<spawned, workerVars, lockVars, histVars>>

\* Mutation: the upgrade fails unless somebody else holds a second Arc.
UpgradeShared(n) == n > 1

\* Mutation: an upgrade also succeeds on a cell that is gone.
UpgradeAlways(n) == TRUE

\* Weak::upgrade: Some(Arc) iff the strong count is not zero.
Upgrade(n) == n > 0

\* ---------------------------------------------------------------- status
BeginStatus(c) == Begin(c, "status_upgrade")

\* Mutation: status() first waits for the join slot's lock to be free of
\* a writer.
StatusUpgradeLocked(c) ==
    /\ pc[c] = "status_upgrade"
    /\ writer = 0
    /\ IF Upgrade(strong)
         THEN /\ strong' = strong + 1
              /\ loc' = [loc EXCEPT ![c].holds = TRUE]
              /\ pc' = [pc EXCEPT ![c] = "status_drop"]
              /\ UNCHANGED <<ret, deadSeen>>
         ELSE /\ Done(c, StatusRet("Terminated"))
              /\ UNCHANGED <<strong, loc>>
    /\ UNCHANGED <<spawned, work, flag, workerHolds, wpc, count, outcome,
                   lockVars, obs, ghostVars>>

\* self.interrupted.upgrade().is_some(): on success the temporary Arc is
\* alive until the condition has been evaluated.
StatusUpgrade(c) ==
    /\ pc[c] = "status_upgrade"
    /\ IF Upgrade(strong)
         THEN /\ strong' = strong + 1
              /\ loc' = [loc EXCEPT ![c].holds = TRUE]
              /\ pc' = [pc EXCEPT ![c] = "status_drop"]
              /\ UNCHANGED <<ret, deadSeen>>
         ELSE /\ Done(c, StatusRet("Terminated"))
              /\ UNCHANGED <<strong, loc>>
    /\ UNCHANGED <<spawned, work, flag, workerHolds, wpc, count, outcome,
                   lockVars, obs, ghostVars>>

StatusDrop(c) ==
    /\ pc[c] = "status_drop"
    /\ strong' = strong - 1
    /\ loc' = [loc EXCEPT ![c].holds = FALSE]
    /\ Done(c, StatusRet("Running"))
    /\ UNCHANGED <<spawned, work, flag, workerHolds, wpc, count, outcome,
                   lockVars, obs, ghostVars>>

\* ------------------------------------------------------------- interrupt
BeginInterrupt(c) == Begin(c, "interrupt_upgrade")

InterruptUpgrade(c) ==
    /\ pc[c] = "interrupt_upgrade"
    /\ IF Upgrade(strong)
         THEN /\ strong' = strong + 1
              /\ loc' = [loc EXCEPT ![c].holds = TRUE]
              /\ pc' = [pc EXCEPT ![c] = "interrupt_cas"]
              /\ UNCHANGED <<ret, deadSeen>>
         ELSE /\ Done(c, InterruptErr)
              /\ UNCHANGED <<strong, loc>>
    /\ UNCHANGED <<spawned, work, flag, workerHolds, wpc, count, outcome,
                   lockVars, obs, ghostVars>>

\* Mutation: the swap returns the value it was asked to store.
CasReturnedNew(old, current, new) == new

\* Mutation: the swap never stores.
CasStoredNever(old, current, new) == old

\* AtomicBool::compare_and_swap(current, new): the value stored afterwards
\* and the value returned (the previous one).
CasStored(old, current, new) == IF old = current THEN new ELSE old
CasReturned(old, current, new) == old

\* Mutation: interrupting also terminates the worker thread.
InterruptCasKill(c) ==
    /\ pc[c] = "interrupt_cas"
    /\ flag' = CasStored(flag, FALSE, TRUE)
    /\ loc' = [loc EXCEPT ![c].prev = CasReturned(flag, FALSE, TRUE)]
    /\ pc' = [pc EXCEPT ![c] = "interrupt_drop"]
    /\ wpc' = "exited"
    /\ UNCHANGED <<spawned, work, strong, workerHolds, count, outcome,
                   lockVars, ret, obs, histVars>>

InterruptCas(c) ==
    /\ pc[c] = "interrupt_cas"
    /\ flag' = CasStored(flag, FALSE, TRUE)
    /\ loc' = [loc EXCEPT ![c].prev = CasReturned(flag, FALSE, TRUE)]
    /\ pc' = [pc EXCEPT ![c] = "interrupt_drop"]
    /\ UNCHANGED <<spawned, work, strong, workerHolds, wpc, count, outcome,
                   lockVars, ret, obs, histVars>>

InterruptDrop(c) ==
    /\ pc[c] = "interrupt_drop"
    /\ strong' = strong - 1
    /\ loc' = [loc EXCEPT ![c].holds = FALSE]
    /\ Done(c, InterruptOk(loc[c].prev))
    /\ okFalse' = IF ~loc[c].prev /\ okFalse < 2 THEN okFalse + 1 ELSE okFalse
    /\ UNCHANGED <<spawned, work, flag, workerHolds, wpc, count, outcome,
                   lockVars, obs, someCount>>

\* ------------------------------------------------------------------ join
BeginJoin(c) == Begin(c, "join_read")

\* LockResult::unwrap on a poisoned lock panics; the guard inside the error
\* is dropped, so the panicking caller holds nothing.
Panicked(c) ==
    /\ pc' = [pc EXCEPT ![c] = "panicked"]
    /\ UNCHANGED <<loc, ret>>

\* self.join_handle.read().unwrap(): waits while a writer holds the lock.
JoinRead(c) ==
    /\ pc[c] = "join_read"
    /\ writer = 0
    /\ IF poisoned
         THEN Panicked(c) /\ UNCHANGED readers
         ELSE /\ readers' = readers \cup {c}
              /\ pc' = [pc EXCEPT ![c] = "join_check"]
              /\ UNCHANGED <<loc, ret>>
    /\ UNCHANGED <<spawned, workerVars, join_handle, writer, poisoned, obs,
                   histVars>>

\* Mutation: the read guard is kept while the write lock is requested.
JoinCheckKeep(c) ==
    /\ pc[c] = "join_check"
    /\ IF join_handle = "Some"
         THEN /\ pc' = [pc EXCEPT ![c] = "join_write"]
              /\ UNCHANGED <<ret, deadSeen, readers>>
         ELSE /\ Done(c, JoinNone)
              /\ readers' = readers \ {c}
    /\ UNCHANGED <<spawned, workerVars, join_handle, writer, poisoned, loc,
                   obs, ghostVars>>

\* .is_some(), then the read guard (a temporary of the `if` condition) is
\* dropped before either branch runs.
JoinCheck(c) ==
    /\ pc[c] = "join_check"
    /\ readers' = readers \ {c}
    /\ IF join_handle = "Some"
         THEN /\ pc' = [pc EXCEPT ![c] = "join_write"]
              /\ UNCHANGED <<ret, deadSeen>>
         ELSE Done(c, JoinNone)
    /\ UNCHANGED <<spawned, workerVars, join_handle, writer, poisoned, loc,
                   obs, ghostVars>>

\* self.join_handle.write().unwrap(): waits for all guards to be gone.
JoinWrite(c) ==
    /\ pc[c] = "join_write"
    /\ writer = 0
    /\ readers = {}
    /\ IF poisoned
         THEN Panicked(c) /\ UNCHANGED writer
         ELSE /\ writer' = c
              /\ pc' = [pc EXCEPT ![c] = "join_take"]
              /\ UNCHANGED <<loc, ret>>
    /\ UNCHANGED <<spawned, workerVars, join_handle, readers, poisoned, obs,
                   histVars>>

\* Mutation: the slot is read without being emptied.
TakeKeep(slot) == slot

\* Option::take: what it leaves in the slot.
Take(slot) == "None"

\* Mutation: the write guard is dropped as soon as the slot has been
\* emptied, before the native join.
JoinTakeUnlock(c) ==
    /\ pc[c] = "join_take"
    /\ join_handle' = Take(join_handle)
    /\ writer' = 0
    /\ loc' = [loc EXCEPT ![c].some = (join_handle = "Some")]
    /\ pc' = [pc EXCEPT ![c] = IF join_handle = "Some" THEN "join_native"
                                                       ELSE "join_unlock"]
    /\ UNCHANGED <<spawned, workerVars, readers, poisoned, ret, obs,
                   histVars>>

\* .take() under the write guard; the guard is a temporary of the `if let`
\* scrutinee, so it stays held through both branches.
JoinTake(c) ==
    /\ pc[c] = "join_take"
    /\ join_handle' = Take(join_handle)
    /\ loc' = [loc EXCEPT ![c].some = (join_handle = "Some")]
    /\ pc' = [pc EXCEPT ![c] = IF join_handle = "Some" THEN "join_native"
                                                       ELSE "join_unlock"]
    /\ UNCHANGED <<spawned, workerVars, readers, writer, poisoned, ret, obs,
                   histVars>>

\* Mutation: the native join does not wait for the thread.
NativeJoinNoWait == TRUE

\* JoinHandle::join can return once the native thread has terminated.
NativeJoinReady == ThreadExited

\* join_handle.join(): blocks until then, and yields the thread's result.
JoinNative(c) ==
    /\ pc[c] = "join_native"
    /\ NativeJoinReady
    /\ loc' = [loc EXCEPT ![c].res = outcome]
    /\ pc' = [pc EXCEPT ![c] = "join_unlock"]
    /\ UNCHANGED <<spawned, workerVars, lockVars, ret, obs, histVars>>

\* Mutation: the thread::Result is unwrapped, so a worker's panic unwinds
\* the joiner.
WrapResultUnwrap(r) == IF r.tag = "Err" THEN Unwound ELSE JoinSome(r)

\* Some(join_handle.join()): the thread::Result is wrapped as it is, an
\* Err(payload) included.
WrapResult(r) == JoinSome(r)

\* The `if let` ends: the write guard is dropped and join() returns.  A
\* caller unwinding with the guard in hand would poison the lock.
JoinUnlock(c) ==
    /\ pc[c] = "join_unlock"
    /\ writer' = 0
    /\ LET r == IF loc[c].some THEN WrapResult(loc[c].res) ELSE JoinNone
       IN  IF r.tag = "unwind"
             THEN /\ Panicked(c)
                  /\ poisoned' = TRUE
                  /\ UNCHANGED <<someCount, deadSeen>>
             ELSE /\ Done(c, r)
                  /\ someCount' = IF r.tag # "None" /\ someCount < 2
                                     THEN someCount + 1 ELSE someCount
                  /\ UNCHANGED <<loc, poisoned>>
    /\ UNCHANGED <<spawned, workerVars, join_handle, readers, obs, okFalse>>

\* ------------------------------------------------------------------ next
CallerStep(c) ==
    \/ BeginStatus(c) \/ StatusUpgrade(c) \/ StatusDrop(c)
    \/ BeginInterrupt(c) \/ InterruptUpgrade(c) \/ InterruptCas(c)
    \/ InterruptDrop(c)
    \/ BeginJoin(c) \/ JoinRead(c) \/ JoinCheck(c) \/ JoinWrite(c)
    \/ JoinTake(c) \/ JoinNative(c) \/ JoinUnlock(c)
    \/ Return(c)

WorkerStep ==
    WorkerReturn \/ WorkerPanic \/ WorkerPoll \/ WorkerSleep \/ ThreadExit

Step == SpawnFail \/ WorkerStep \/ (\E c \in Callers : CallerStep(c))

\* The units of work the repository itself runs.
Next == SpawnOk(RepoKinds) \/ Step

Spec == Init /\ [][Next]_vars

\* Any unit of work the signature of spawn admits.
NextAnyWork == SpawnOk(AnyKinds) \/ WorkerDropFlag \/ Step

SpecAnyWork == Init /\ [][NextAnyWork]_vars

\* Fair scheduling: a thread that can run does run.  The worker thread
\* takes its next step; a caller that is inside an operation takes its next
\* step (nobody is obliged to start one); and the RwLock does not starve a
\* request that can be granted again and again.
Progress(c) ==
    \/ StatusUpgrade(c) \/ StatusDrop(c)
    \/ InterruptUpgrade(c) \/ InterruptCas(c) \/ InterruptDrop(c)
    \/ JoinCheck(c) \/ JoinTake(c) \/ JoinNative(c) \/ JoinUnlock(c)
    \/ Return(c)

Fairness ==
    /\ WF_vars(WorkerStep)
    /\ \A c \in Callers :
          /\ WF_vars(Progress(c))
          /\ SF_vars(JoinRead(c))
          /\ SF_vars(JoinWrite(c))

FairSpec == Spec /\ Fairness

TypeOK ==
    /\ spawned \in {"none", "ok", "ioerror"}
    /\ flag \in BOOLEAN
    /\ strong \in 0..(NumCallers + 1)
    /\ writer \in 0..NumCallers
    /\ readers \subseteq Callers
    /\ count \in 0..MaxIter
    /\ okFalse \in 0..2
    /\ deadSeen \in BOOLEAN
    /\ someCount \in 0..2

\* ================================================================ claims
\* Callers that have taken the JoinHandle out of the slot and not yet
\* returned from join().
Takers == {c \in Callers : pc[c] \in {"join_native", "join_unlock"} /\ loc[c].some}
IsSome(r) == r.op = "join" /\ r.tag \in {"SomeOk", "SomeErr"}
IsNone(r) == r.op = "join" /\ r.tag = "None"

\* C1: however many threads call join() and however their read-lock checks
\* and write-lock takes interleave, the outcome is delivered at most once
\* and is never lost: while the slot is full nobody has or had the
\* JoinHandle, and once it is empty exactly one call holds it or has
\* returned Some; a call returns None only then; and a holder can go on as
\* soon as the worker thread has terminated.
C1_ExactlyOneSome ==
    /\ someCount <= 1
    /\ Cardinality(Takers) <= 1
    /\ (spawned = "ok" /\ join_handle = "Some") => (someCount = 0 /\ Takers = {})
    /\ (spawned = "ok" /\ join_handle = "None") => someCount + Cardinality(Takers) = 1
    /\ \A c \in Callers : IsNone(ret[c]) => someCount + Cardinality(Takers) = 1
    /\ \A c \in Takers : ThreadExited => ENABLED (JoinNative(c) \/ JoinUnlock(c))

\* Two join() calls raced past the read-lock check; one got Some, the other None.
C1_Witness ==
    \E c, d \in Callers :
        /\ IsSome(ret[c]) /\ IsNone(ret[d])
        /\ ~obs[c].taken /\ ~obs[d].taken

\* C2: for a unit of work that returns v, a join() that returns Some
\* returns Some(Ok(v)) with v the worker's own value; a join() returns None
\* only when another call has taken the JoinHandle; and every join() that
\* starts after one has returned Some returns None, whatever status() and
\* interrupt() calls came in between.
C2_JoinOk ==
    work.kind \in {"ret", "poll"} =>
        \A c \in Callers :
            /\ IsSome(ret[c]) =>
                  ret[c] = JoinSome(OkOf(IF work.kind = "poll" THEN count ELSE work.val))
            /\ (ret[c].op = "join" /\ obs[c].some) => IsNone(ret[c])
            /\ IsNone(ret[c]) =>
                  (someCount = 1 \/ \E d \in Callers \ {c} : d \in Takers)

\* One caller has Some(Ok(2)); the other interrupted in between (the flag is
\* set) and its later join() returned None.
C2_Witness ==
    /\ work = [kind |-> "ret", val |-> MaxValue]
    /\ flag
    /\ \E c, d \in Callers :
          /\ ret[c] = JoinSome(OkOf(MaxValue))
          /\ IsNone(ret[d]) /\ obs[d].some

\* C3: for a unit of work that panics, a join() that returns Some returns
\* Some(Err(payload)) as a value; no caller unwinds and the lock is never
\* poisoned; and every join() that starts after one has returned Some
\* returns None.
C3_JoinErr ==
    work.kind = "panic" =>
        /\ ~poisoned
        /\ \A c \in Callers :
              /\ pc[c] # "panicked"
              /\ IsSome(ret[c]) => ret[c] = JoinSome(ErrPayload)
              /\ (ret[c].op = "join" /\ obs[c].some) => IsNone(ret[c])

C3_Witness ==
    /\ work.kind = "panic"
    /\ \E c, d \in Callers :
          /\ ret[c] = JoinSome(ErrPayload)
          /\ IsNone(ret[d]) /\ obs[d].some

C5_ErrAfterFinish ==
    \A c \in Callers :
        (ret[c].op = "interrupt" /\ obs[c].done) => ret[c] = InterruptErr

C7_TerminatedAfterFinish ==
    \A c \in Callers :
        (ret[c].op = "status" /\ obs[c].done) => ret[c] = StatusRet("Terminated")

\* C8: a join() holds or returns an outcome only once the worker thread has
\* terminated, and it is the thread's final outcome; a caller that took
\* the JoinHandle while the thread was alive cannot go on until it has
\* terminated; none of this looks at the flag.
C8_SomeOnlyAfterExit ==
    \A c \in Callers :
        /\ IsSome(ret[c]) => (ThreadExited /\ ret[c] = JoinSome(outcome))
        /\ (pc[c] = "join_unlock" /\ loc[c].some)
              => (ThreadExited /\ loc[c].res = outcome)
        /\ (pc[c] = "join_native" /\ ~ThreadExited) => ~ENABLED CallerStep(c)

\* A join() returned the outcome of a worker nobody ever interrupted.
C8_Witness ==
    /\ ~flag
    /\ okFalse = 0
    /\ \E c \in Callers : IsSome(ret[c]) /\ ~obs[c].done

\* C9 (as claimed): a join() that starts after another call has taken the
\* JoinHandle is not kept waiting while the worker thread is still alive.
C9_LateJoinNotBlocked ==
    \A c \in Callers :
        (pc[c] = "join_read" /\ obs[c].taken /\ ~ThreadExited)
            => ENABLED JoinRead(c)

\* C10: in every reachable state a caller inside status() or interrupt() can
\* take its next step, and every step brings it nearer to its return:
\* status() returns after at most 2 steps, interrupt() after at most 3.
StepsLeft(p) ==
    CASE p = "status_upgrade" -> 2
      [] p = "status_drop" -> 1
      [] p = "interrupt_upgrade" -> 3
      [] p = "interrupt_cas" -> 2
      [] p = "interrupt_drop" -> 1
      [] OTHER -> 0

C10_NeverBlock ==
    /\ [](\A c \in Callers : StepsLeft(pc[c]) > 0 => ENABLED CallerStep(c))
    /\ [][\A c \in Callers :
             (StepsLeft(pc[c]) > 0 /\ pc'[c] # pc[c])
                => StepsLeft(pc'[c]) < StepsLeft(pc[c])]_vars

\* status() and interrupt() have returned to one caller while the other is
\* blocked in the native join of a worker that is still running.
C10_Witness ==
    \E c, d \in Callers :
        /\ pc[d] = "join_native" /\ ~BodyDone
        /\ obs[c].taken
        /\ ret[c].op \in {"status", "interrupt"}

\* Some interrupt() has executed the compare-and-swap that found the flag
\* false: it has returned Ok(false), or it is about to.
CasFoundFalse ==
    \/ okFalse >= 1
    \/ \E c \in Callers : pc[c] = "interrupt_drop" /\ ~loc[c].prev
InJoin(c) ==
    pc[c] \in {"join_read", "join_check", "join_write", "join_take",
               "join_native", "join_unlock"}

\* C11 (as claimed): the polling worker does not leave its loop before some
\* interrupt() call has returned Ok(false).
C11_NoExitBeforeReturn ==
    [][(work.kind = "poll" /\ ~BodyDone /\ BodyDone') => okFalse >= 1]_vars

\* C11 (amended): the polling worker does not leave its loop before some
\* interrupt() call has executed the compare-and-swap it returns Ok(false)
\* for; once the flag is set the loop's test ends the loop, so at most the
\* iteration already under way is completed; and under fair scheduling a
\* join() in progress on it then leads to a join() returning Some(Ok(i)).
C11_PollingWorker ==
    /\ [][(work.kind = "poll" /\ ~BodyDone /\ BodyDone')
             => (flag /\ CasFoundFalse)]_vars
    /\ [][(work.kind = "poll" /\ flag /\ wpc = "body")
             => wpc' \in {"body", "finished"}]_vars
    /\ [](\A c \in Callers :
             (work.kind = "poll" /\ IsSome(ret[c])) => ret[c] = JoinSome(OkOf(count)))
    /\ ((work.kind = "poll" /\ flag /\ \E c \in Callers : InJoin(c))
           ~> (someCount = 1))

\* The polling worker was interrupted after its first iteration and the
\* join() that was waiting for it returned Some(Ok(1)).
C11_Witness ==
    /\ work.kind = "poll"
    /\ okFalse = 1
    /\ \E c \in Callers : ret[c] = JoinSome(OkOf(MaxIter)) /\ ~obs[c].done

InInterrupt(c) == pc[c] \in {"interrupt_upgrade", "interrupt_cas", "interrupt_drop"}

\* C12: a step of an interrupt() call leaves the worker's execution state,
\* the join slot with its lock and every other caller as they are (it
\* changes the flag, the Arc's reference count while it holds its temporary
\* Arc, and the call's own locals and result); so a worker that never reads
\* the flag and never returns stays running however often it is
\* interrupted, no join() on it returns, and the caller that took the
\* JoinHandle stays blocked.
C12_InterruptAdvisory ==
    /\ [][\A c \in Callers :
             (InInterrupt(c) /\ pc'[c] # pc[c]) =>
                 /\ UNCHANGED <<spawned, work, workerHolds, wpc, count, outcome>>
                 /\ UNCHANGED <<join_handle, readers, writer, poisoned, someCount>>
                 /\ \A d \in Callers \ {c} :
                       pc'[d] = pc[d] /\ loc'[d] = loc[d] /\ ret'[d] = ret[d]]_vars
    /\ [](work.kind = "spin" =>
             /\ ~BodyDone
             /\ someCount = 0
             /\ \A c \in Callers :
                   /\ ret[c].op = "join" => IsNone(ret[c])
                   /\ pc[c] = "join_native" => ~ENABLED CallerStep(c))

\* The spinning worker has been interrupted twice and the joiner still waits.
C12_Witness ==
    /\ work.kind = "spin"
    /\ flag
    /\ \E c, d \in Callers :
          pc[c] = "join_native" /\ ret[d] = InterruptOk(TRUE)

\* C13: the flag changes only from false to true, and only in the
\* compare-and-swap of an interrupt() call that returns Ok(false); every
\* other step of a caller (all of status() and join(), an interrupt() whose
\* upgrade fails, an interrupt() whose swap finds true) leaves it as it is;
\* and the call that returns Ok(false) leaves it set.
C13_FlagOnlySetByCas ==
    /\ [][flag' # flag =>
             /\ ~flag /\ flag'
             /\ \E c \in Callers :
                   /\ pc[c] = "interrupt_cas" /\ pc'[c] = "interrupt_drop"
                   /\ ~loc'[c].prev]_vars
    /\ [][\A c \in Callers :
             (pc'[c] # pc[c] /\ ~(pc[c] = "interrupt_cas" /\ ~flag))
                => flag' = flag]_vars
    /\ [](\A c \in Callers :
             /\ (ret[c] = InterruptOk(FALSE)
                   \/ (pc[c] = "interrupt_drop" /\ ~loc[c].prev)) => flag
             /\ (pc[c] = "interrupt_drop" /\ loc[c].prev) => flag)

\* One interrupt() set the flag and returned Ok(false); a later one, after
\* the worker had finished, returned Err and the flag is still set.
C13_Witness ==
    /\ flag
    /\ \E c, d \in Callers :
          ret[c] = InterruptOk(FALSE) /\ ret[d] = InterruptErr

\* C14 (as claimed): the flag cell is alive exactly while the unit of work
\* has not finished; no upgrade inside status() or interrupt() keeps it
\* alive after the worker has dropped its Arc.
C14_AliveIffRunning ==
    spawned = "ok" => (strong > 0 <=> ~BodyDone)

\* C15 (as claimed): once a join() has returned Some, every status() that
\* starts afterwards returns Terminated and every interrupt() that starts
\* afterwards returns Err.
C15_TerminatedAfterJoin ==
    \A c \in Callers :
        obs[c].some =>
            /\ ret[c].op = "status" => ret[c] = StatusRet("Terminated")
            /\ ret[c].op = "interrupt" => ret[c] = InterruptErr

\* C16: observed liveness is monotone.  A status() or interrupt() call that
\* starts after some status() has returned Terminated or some interrupt()
\* has returned Err returns Terminated, respectively Err: such a return
\* means the strong count was zero, and a count of zero never rises again,
\* so every later upgrade fails.
C16_DeadStaysDead ==
    /\ [](\A c \in Callers :
            obs[c].dead =>
                /\ ret[c].op = "status" => ret[c] = StatusRet("Terminated")
                /\ ret[c].op = "interrupt" => ret[c] = InterruptErr)
    /\ [](deadSeen => strong = 0)
    /\ [][(spawned = "ok" /\ strong = 0) => strong' = 0]_vars

\* An interrupt() that started after a status() had returned Terminated
\* has returned Err.
C16_Witness ==
    \E c, d \in Callers :
        /\ ret[c] = StatusRet("Terminated")
        /\ obs[d].dead /\ ret[d] = InterruptErr

\* C17: a join() returns None only after the worker thread has terminated.
\* The call that took the JoinHandle holds the write guard from its take to
\* the end of the native join, so the slot is seen empty by another call,
\* at its read-lock check or at its own take, only when the thread has
\* terminated.
C17_NoneOnlyAfterExit ==
    /\ \A c \in Callers :
          /\ IsNone(ret[c]) => ThreadExited
          /\ pc[c] \in {"join_take", "join_native", "join_unlock"} => writer = c
          /\ (pc[c] \in {"join_check", "join_take"} /\ join_handle = "None")
                => ThreadExited
    /\ (spawned = "ok" /\ join_handle = "None" /\ ~ThreadExited)
          => \E c \in Callers : pc[c] = "join_native" /\ writer = c

\* A join() that started while the unit of work was still running has
\* returned None, after the call that took the JoinHandle returned Some.
C17_Witness ==
    \E c, d \in Callers :
        /\ IsNone(ret[c]) /\ ~obs[c].done
        /\ IsSome(ret[d])

\* A caller waiting for the slot's lock, which is not free for it.
Blocked(c) ==
    \/ pc[c] = "join_read" /\ ~ENABLED JoinRead(c)
    \/ pc[c] = "join_write" /\ ~ENABLED JoinWrite(c)

\* C18: join() is deadlock-free.  A caller asks for the write lock only
\* after it has dropped its read guard, and holds no guard while it waits;
\* whoever waits for the lock waits for a caller that holds a guard and is
\* itself not waiting for the lock (at worst it waits for the worker in the
\* native join); once the worker thread has terminated the callers are
\* never all blocked; and under fair scheduling every join() that is under
\* way when the worker thread has terminated returns Some or None.
C18_JoinDeadlockFree ==
    /\ [](\A c \in Callers :
            /\ pc[c] \in {"join_read", "join_write"}
                  => (c \notin readers /\ writer # c)
            /\ Blocked(c) =>
                  \E d \in Callers \ {c} :
                      /\ (writer = d \/ d \in readers) /\ ~Blocked(d)
                      /\ ThreadExited => ENABLED Progress(d))
    /\ [](ThreadExited => \E c \in Callers : ~Blocked(c))
    /\ \A c \in Callers :
          (InJoin(c) /\ ThreadExited)
              ~> (pc[c] = "done" /\ (IsSome(ret[c]) \/ IsNone(ret[c])))

\* The worker thread has terminated, one caller is in the native join with
\* the write guard, and another waits for the write lock.
C18_Witness ==
    /\ ThreadExited
    /\ \E c, d \in Callers :
          /\ pc[c] = "join_write" /\ Blocked(c)
          /\ pc[d] = "join_native" /\ writer = d
====
